---- MODULE Spec2Model ----
(***************************************************************************)
(* WebViewExporter (src/unnamed/part_000): the HTML export pipeline of     *)
(* vnote.  One exporter object, one embedded renderer, one Qt event loop.  *)
(*                                                                         *)
(* doExport is a blocking call that yields to the event loop inside        *)
(* Utils::sleepWait.  While it is yielded the event loop dispatches the    *)
(* renderer's signals and the caller's stop().  Every activation of        *)
(* doExport is a frame on `frames`; only the innermost frame runs, as with *)
(* nested event loops.  A frame's pc names the sleepWait it is inside.     *)
(***************************************************************************)
EXTENDS Integers, Sequences, FiniteSets, TLC

\* Bounds of the model.
MaxExports == 2
MaxPrepares == 1

\* WebViewState flags (declared in webviewexporter.h).
Started == 0
LoadFinished == 1
WorkFinished == 2
Failed == 4

\* The tri-state local of doExportHtml: 0 - Busy, 1 - Finished, -1 - Failed.
StateBusy == 0
StateFinished == 1
StateFailed == 0 - 1

VARIABLES
    m_askedToStop,          \* cancellation flag
    m_exportOngoing,        \* export-ongoing flag
    m_viewer,               \* 0: nullptr, n > 0: the n-th renderer instance
    m_htmlTemplate,         \* preview shell
    m_exportHtmlTemplate,   \* export shell
    m_webViewStates,        \* bitset of WebViewState flags
    frames,                 \* doExport activations in progress, innermost last (stopped: stop() came after its entry and neither clear() nor a later doExport has reset the flag since; pre: m_askedToStop before its entry, kept during the readiness wait; err: its load was reported failed, kept until doExportHtml)
    loadSignals,            \* loadFinished signals in flight, by the export whose load emits them
    workSignals,            \* workFinished signals in flight, likewise
    contentRequests,        \* saveContent requests not answered yet, by export
    connections,            \* contentReady handlers connected, in connection order, by export
    written,                \* exports whose output file writeHtmlFile has written
    nextExport,             \* number of the next doExport call
    prepares,               \* prepare() calls so far
    result,                 \* per export: "none", "running", "true", "false"
    lastExit,               \* the last return of doExport: export, exit path, value (ready: it left through the stop check with both completion flags set)
    fired,                  \* completion signals handled since the render state was reset, in order
    failSignalled,          \* a failure signal set Failed since the render state was reset
    lastHandler,            \* the last execution of the content-ready handler body (head and style kept for an empty body)
    clearRun,               \* clear() calls in a row (2: two or more)
    clearSnap,              \* the exporter's fields after the first clear() of the row
    scan,                   \* the scanning loop being followed: text, cursor, history
    page,                   \* the call of writeHtmlFile being followed: arguments, file, folder
    crashed                 \* the process was ended by a null or dangling access

vars == << m_askedToStop, m_exportOngoing, m_viewer, m_htmlTemplate,
           m_exportHtmlTemplate, m_webViewStates, frames, loadSignals,
           workSignals, contentRequests, connections, written, nextExport,
           prepares, result, lastExit, fired, failSignalled, lastHandler,
           clearRun, clearSnap, scan, page, crashed >>

exporterVars == << m_askedToStop, m_exportOngoing, m_viewer, m_htmlTemplate,
                   m_exportHtmlTemplate, m_webViewStates >>
rendererVars == << loadSignals, workSignals, contentRequests, connections >>
clearVars == << clearRun, clearSnap >>
rewriteVars == << scan, page >>
exportVars == << m_askedToStop, m_exportOngoing, m_viewer, m_htmlTemplate,
                m_exportHtmlTemplate, m_webViewStates, frames, loadSignals,
                workSignals, contentRequests, connections, written, nextExport,
                prepares, result, lastExit, fired, failSignalled, lastHandler,
                clearRun, clearSnap, crashed >>

Exports == 1 .. MaxExports
Formats == {"HTML", "Other"}
Fragments == {"", "x"}

----------------------------------------------------------------------------
\* Bit operations on the flag set; f is a single flag (a power of two).

HasFlag(s, f) == (s \div f) % 2 = 1
BitOr(s, f) == IF HasFlag(s, f) THEN s ELSE s + f
BitAnd(s, f) == IF HasFlag(s, f) THEN f ELSE 0

\* m_webViewStates == (LoadFinished | WorkFinished)
isWebViewReady_LoadOnly(s) == BitAnd(s, LoadFinished) # 0
isWebViewReady_Mask(s) == HasFlag(s, LoadFinished) /\ HasFlag(s, WorkFinished)
isWebViewReady(s) == s = BitOr(LoadFinished, WorkFinished)

\* m_webViewStates & Failed
isWebViewFailed(s) == BitAnd(s, Failed) # 0

\* The handlers prepare() connects: m_webViewStates |= flag.
OnLoadFinished(s) == BitOr(s, LoadFinished)
OnWorkFinished(s) == BitOr(s, WorkFinished)

----------------------------------------------------------------------------
Top == frames[Len(frames)]
Pop == SubSeq(frames, 1, Len(frames) - 1)
SetTop(f) == [frames EXCEPT ![Len(frames)] = f]
InPc(p) == frames # << >> /\ Top.pc = p

NoHandler == [reg |-> 0, during |-> 0, head |-> "", style |-> "", body |-> "",
              wrote |-> FALSE]
NoSnap == [stop |-> FALSE, ongoing |-> FALSE, viewer |-> 0, html |-> "",
           export |-> "", states |-> Started]
NoExit == [id |-> 0, path |-> "none", ret |-> FALSE, ready |-> FALSE]

NoScan == [fn |-> "none", tags |-> << >>, html |-> << >>, pos |-> 0,
           altered |-> FALSE, done |-> TRUE, base |-> FALSE, got |-> {},
           iters |-> 0]
NoPage == [called |-> FALSE]

Exporter == [stop |-> m_askedToStop, ongoing |-> m_exportOngoing,
             viewer |-> m_viewer, html |-> m_htmlTemplate,
             export |-> m_exportHtmlTemplate, states |-> m_webViewStates]

Init ==
    /\ m_askedToStop = FALSE
    /\ m_exportOngoing = FALSE
    /\ m_viewer = 0
    /\ m_htmlTemplate = ""
    /\ m_exportHtmlTemplate = ""
    /\ m_webViewStates = Started
    /\ frames = << >>
    /\ loadSignals = {}
    /\ workSignals = {}
    /\ contentRequests = {}
    /\ connections = << >>
    /\ written = {}
    /\ nextExport = 1
    /\ prepares = 0
    /\ result = [e \in Exports |-> "none"]
    /\ lastExit = NoExit
    /\ fired = << >>
    /\ failSignalled = FALSE
    /\ lastHandler = NoHandler
    /\ clearRun = 0
    /\ clearSnap = NoSnap
    /\ scan = NoScan
    /\ page = NoPage
    /\ crashed = FALSE

----------------------------------------------------------------------------
\* The caller's operations.

\* clear(): the fields of the exporter after the call.
ClearedFields_KeepStop(e) ==
    [e EXCEPT !.viewer = 0, !.html = "", !.export = "", !.ongoing = FALSE]
ClearedFields_KeepViewer(e) ==
    [e EXCEPT !.stop = FALSE, !.html = "", !.export = "", !.ongoing = FALSE]
ClearedFields(e) ==
    [e EXCEPT !.stop = FALSE, !.viewer = 0, !.html = "", !.export = "",
              !.ongoing = FALSE]

\* clear().  Deleting the viewer deletes its page and adapter, and with them
\* every connection and every signal still to come from them.  Nothing in
\* clear() looks at m_exportOngoing: it also runs when called from the event
\* loop while a doExport is inside sleepWait, and leaves that activation in
\* progress.
Clear ==
    /\ ~crashed
    /\ UNCHANGED << rewriteVars, crashed >>
    /\ LET c == ClearedFields(Exporter) IN
        /\ m_askedToStop' = c.stop
        /\ m_viewer' = c.viewer
        /\ m_htmlTemplate' = c.html
        /\ m_exportHtmlTemplate' = c.export
        /\ m_exportOngoing' = c.ongoing
        /\ m_webViewStates' = c.states
        /\ clearSnap' = IF clearRun = 0 THEN c ELSE clearSnap
    /\ clearRun' = IF clearRun = 0 THEN 1 ELSE 2
    /\ loadSignals' = {}
    /\ workSignals' = {}
    /\ contentRequests' = {}
    /\ connections' = << >>
    /\ frames' = [i \in DOMAIN frames |-> [frames[i] EXCEPT !.stopped = FALSE]]
    /\ UNCHANGED << written, nextExport, prepares, result, lastExit,
                    fired, failSignalled, lastHandler >>

\* Q_ASSERT(!m_viewer && !m_exportOngoing)
PreparePrecondition == m_viewer = 0 /\ ~m_exportOngoing

\* prepare(p_option): creates the viewer, connects the two completion
\* handlers and generates both templates.
Prepare(addOutlinePanel) ==
    /\ ~crashed
    /\ UNCHANGED << rewriteVars, crashed >>
    /\ PreparePrecondition
    /\ prepares < MaxPrepares
    /\ prepares' = prepares + 1
    /\ m_viewer' = prepares + 1
    /\ m_htmlTemplate' = "viewer"
    /\ m_exportHtmlTemplate' = IF addOutlinePanel THEN "export+outline" ELSE "export"
    /\ clearRun' = 0
    /\ clearSnap' = NoSnap
    /\ UNCHANGED << m_askedToStop, m_exportOngoing, m_webViewStates, frames,
                    rendererVars, written, nextExport, result, lastExit, fired,
                    failSignalled, lastHandler >>

\* stop()
Stop ==
    /\ ~crashed
    /\ UNCHANGED << rewriteVars, crashed >>
    /\ m_askedToStop' = TRUE
    /\ frames' = [i \in DOMAIN frames |-> [frames[i] EXCEPT !.stopped = TRUE]]
    /\ clearRun' = 0
    /\ clearSnap' = NoSnap
    /\ UNCHANGED << m_exportOngoing, m_viewer, m_htmlTemplate,
                    m_exportHtmlTemplate, m_webViewStates, rendererVars,
                    written, nextExport, prepares, result, lastExit, fired,
                    failSignalled, lastHandler >>

\* Q_ASSERT(!m_exportOngoing)
DoExportPrecondition(ongoing) == ~ongoing

\* m_askedToStop = false at the entry of doExport.
StopFlagAtEntry_Keep(stop) == stop
StopFlagAtEntry(stop) == FALSE

\* doExport(p_option, p_file, p_outputFile) from its entry to the first
\* sleepWait of the readiness loop: the render state was just reset, so the
\* loop condition !isWebViewReady() holds and the loop body is entered.
\* setHtml/setText start a load that will emit loadFinished and workFinished.
\* The call may come from the caller's main loop or from an event handled
\* while an earlier activation is inside sleepWait.  With no viewer the call
\* ends the process at m_viewer->setHtml, after the assignments before it.
DoExport(fmt) ==
    /\ ~crashed
    /\ UNCHANGED rewriteVars
    /\ nextExport <= MaxExports
    /\ DoExportPrecondition(m_exportOngoing)
    /\ m_askedToStop' = StopFlagAtEntry(m_askedToStop)
    /\ m_exportOngoing' = TRUE
    /\ m_webViewStates' = Started
    /\ crashed' = (m_viewer = 0)
    /\ loadSignals' = IF m_viewer = 0 THEN loadSignals
                      ELSE loadSignals \cup {nextExport}
    /\ workSignals' = IF m_viewer = 0 THEN workSignals
                      ELSE workSignals \cup {nextExport}
    /\ frames' = Append([i \in DOMAIN frames |-> [frames[i] EXCEPT !.stopped = FALSE]],
                        [id |-> nextExport,
                                 pc |-> IF m_viewer = 0 THEN "crashed" ELSE "wait",
                                 fmt |-> fmt,
                                 state |-> StateBusy, runs |-> 0, err |-> FALSE,
                                 stopped |-> FALSE, pre |-> m_askedToStop])
    /\ nextExport' = nextExport + 1
    /\ result' = [result EXCEPT ![nextExport] = "running"]
    /\ fired' = << >>
    /\ failSignalled' = FALSE
    /\ lastHandler' = NoHandler
    /\ clearRun' = 0
    /\ clearSnap' = NoSnap
    /\ UNCHANGED << m_viewer, m_htmlTemplate, m_exportHtmlTemplate,
                    contentRequests, connections, written, prepares, lastExit >>

----------------------------------------------------------------------------
\* The steps of doExport after a sleepWait returns.

\* exit_export: m_exportOngoing = false, whatever the path that got there.
OngoingAtExit_EarlyReturn(path) == path = "stop"
OngoingAtExit(path) == FALSE

\* exit_export: ... return ret.
ReturnFromExport(path, ret) ==
    /\ frames' = Pop
    /\ m_exportOngoing' = OngoingAtExit(path)
    /\ result' = [result EXCEPT ![Top.id] = IF ret THEN "true" ELSE "false"]
    /\ lastExit' = [id |-> Top.id, path |-> path, ret |-> ret,
                    ready |-> path = "stop" /\ isWebViewReady(m_webViewStates)]

\* The readiness loop after Utils::sleepWait(100) returns: the stop check,
\* the failure check, then the loop condition.
ReadinessStep_ReadyFirst(stop, s) ==
    IF isWebViewReady(s) THEN "ready"
    ELSE IF stop THEN "exit_stop"
    ELSE IF isWebViewFailed(s) THEN "exit_failed"
    ELSE "wait"
ReadinessStep_Timeout(stop, s) ==
    IF stop THEN "exit_stop"
    ELSE IF isWebViewFailed(s) THEN "exit_failed"
    ELSE IF isWebViewReady(s) THEN "ready"
    ELSE "exit_stop"
ReadinessStep(stop, s) ==
    IF stop THEN "exit_stop"
    ELSE IF isWebViewFailed(s) THEN "exit_failed"
    ELSE IF isWebViewReady(s) THEN "ready"
    ELSE "wait"

\* One poll of the readiness loop of doExport.
PollReadiness ==
    /\ ~crashed
    /\ UNCHANGED << rewriteVars, crashed >>
    /\ InPc("wait")
    /\ LET step == ReadinessStep(m_askedToStop, m_webViewStates) IN
        CASE step = "exit_stop" ->
                /\ ReturnFromExport("stop", FALSE)
                /\ UNCHANGED << m_askedToStop, m_viewer, m_htmlTemplate,
                                m_exportHtmlTemplate, m_webViewStates,
                                rendererVars, written, nextExport, prepares,
                                fired, failSignalled, lastHandler, clearVars >>
          [] step = "exit_failed" ->
                /\ ReturnFromExport("failed", FALSE)
                /\ UNCHANGED << m_askedToStop, m_viewer, m_htmlTemplate,
                                m_exportHtmlTemplate, m_webViewStates,
                                rendererVars, written, nextExport, prepares,
                                fired, failSignalled, lastHandler, clearVars >>
          [] step = "ready" ->
                /\ frames' = SetTop([Top EXCEPT !.pc = "settle", !.pre = FALSE])
                /\ UNCHANGED << exporterVars, rendererVars, written, nextExport,
                                prepares, result, lastExit, fired, failSignalled,
                                lastHandler, clearVars >>
          [] OTHER -> UNCHANGED vars

\* Utils::sleepWait(200) returns; the switch on m_targetFormat.  For HTML,
\* doExportHtml up to the first sleepWait of its loop: state = 0, connect the
\* contentReady handler, saveContent().  Any other format leaves ret false.
\* After a clear() there is no viewer and doExportHtml ends the process at
\* m_viewer->adapter().
PollSettle ==
    /\ ~crashed
    /\ UNCHANGED rewriteVars
    /\ InPc("settle")
    /\ IF Top.fmt = "HTML" /\ m_viewer = 0
       THEN /\ frames' = SetTop([Top EXCEPT !.pc = "crashed", !.state = StateBusy])
            /\ crashed' = TRUE
            /\ UNCHANGED << exporterVars, rendererVars, written, nextExport,
                            prepares, result, lastExit, fired, failSignalled,
                            lastHandler, clearVars >>
       ELSE IF Top.fmt = "HTML"
       THEN /\ frames' = SetTop([Top EXCEPT !.pc = "html_wait", !.state = StateBusy,
                                            !.err = FALSE])
            /\ connections' = Append(connections, Top.id)
            /\ contentRequests' = contentRequests \cup {Top.id}
            /\ lastHandler' = NoHandler
            /\ crashed' = FALSE
            /\ UNCHANGED << exporterVars, loadSignals, workSignals, written,
                            nextExport, prepares, result, lastExit, fired,
                            failSignalled, clearVars >>
       ELSE /\ ReturnFromExport("format", FALSE)
            /\ crashed' = FALSE
            /\ UNCHANGED << m_askedToStop, m_viewer, m_htmlTemplate,
                            m_exportHtmlTemplate, m_webViewStates, rendererVars,
                            written, nextExport, prepares, fired, failSignalled,
                            lastHandler, clearVars >>

\* The loop of doExportHtml ends when m_askedToStop breaks it or state # 0.
HtmlWaitDone(stop, state) == stop \/ state # StateBusy

\* One poll of the loop of doExportHtml; return state == 1.
PollHtml ==
    /\ ~crashed
    /\ UNCHANGED << rewriteVars, crashed >>
    /\ InPc("html_wait")
    /\ IF HtmlWaitDone(m_askedToStop, Top.state)
       THEN /\ ReturnFromExport("html", Top.state = StateFinished)
            /\ UNCHANGED << m_askedToStop, m_viewer, m_htmlTemplate,
                            m_exportHtmlTemplate, m_webViewStates, rendererVars,
                            written, nextExport, prepares, fired, failSignalled,
                            lastHandler, clearVars >>
       ELSE UNCHANGED vars

----------------------------------------------------------------------------
\* The renderer's signals, dispatched by the event loop: while a doExport is
\* inside sleepWait, or while the caller's main loop runs.

Note(kind) == IF \E i \in DOMAIN fired : fired[i] = kind THEN fired
              ELSE Append(fired, kind)

\* QWebEnginePage::loadFinished(bool ok); the handler takes no argument.
LoadFinishedSignal(e, ok) ==
    /\ ~crashed
    /\ UNCHANGED << rewriteVars, crashed >>
    /\ e \in loadSignals
    /\ loadSignals' = loadSignals \ {e}
    /\ m_webViewStates' = OnLoadFinished(m_webViewStates)
    /\ fired' = Note("load")
    /\ frames' = IF InPc("wait") /\ Top.id = e /\ ~ok
                 THEN SetTop([Top EXCEPT !.err = TRUE]) ELSE frames
    /\ UNCHANGED << m_askedToStop, m_exportOngoing, m_viewer, m_htmlTemplate,
                    m_exportHtmlTemplate, workSignals, contentRequests,
                    connections, written, nextExport, prepares, result,
                    lastExit, failSignalled, lastHandler, clearVars >>

\* MarkdownViewerAdapter::workFinished
WorkFinishedSignal(e) ==
    /\ ~crashed
    /\ UNCHANGED << rewriteVars, crashed >>
    /\ e \in workSignals
    /\ workSignals' = workSignals \ {e}
    /\ m_webViewStates' = OnWorkFinished(m_webViewStates)
    /\ fired' = Note("work")
    /\ UNCHANGED << m_askedToStop, m_exportOngoing, m_viewer, m_htmlTemplate,
                    m_exportHtmlTemplate, frames, loadSignals, contentRequests,
                    connections, written, nextExport, prepares, result,
                    lastExit, failSignalled, lastHandler, clearVars >>

\* The body of the contentReady handler after its disconnect: the value it
\* assigns to state.  writeHtmlFile returns true on every path, so the handler
\* ends with state = 1 whenever it calls it.
ContentHandlerState_IgnoreBody(body, stop) ==
    IF stop THEN StateFailed ELSE StateFinished
ContentHandlerState(body, stop) ==
    IF body = "" \/ stop THEN StateFailed ELSE StateFinished

\* What a handler whose doExportHtml has returned can find behind its
\* reference to p_outputFile, a string of the caller: the path it was given
\* (the caller kept the string), the path of the latest doExport (the caller
\* reused the variable), a path of no export or the end of the process (the
\* string is gone).
PathOutcomes == {"own", "latest", "garbage", "abort"}
PathRead(reg, outcome) ==
    IF outcome = "own" THEN reg
    ELSE IF outcome = "latest" THEN nextExport - 1
    ELSE 0

\* MarkdownViewerAdapter::contentReady(head, style, body), the answer to the
\* saveContent() of export e.  The handlers run in connection order; the first
\* disconnects every contentReady connection to the exporter, so no other one
\* runs for this emission.  A handler captures state and p_outputFile of its
\* doExportHtml by reference.  When that doExportHtml has returned both
\* references dangle, each on its own: the write to state lands in the state
\* of a doExportHtml now waiting (target, its frame) or in none (target 0),
\* and the path read is one of PathOutcomes.  target and outcome are drawn
\* only where the handler uses them: a handler whose doExportHtml is still
\* waiting writes its own state and reads its own path, and the path is read
\* only when writeHtmlFile is called.
Dangling ==
    /\ connections # << >>
    /\ \A i \in DOMAIN frames :
          ~(frames[i].id = Head(connections) /\ frames[i].pc = "html_wait")
Targets ==
    IF Dangling THEN {0} \cup {i \in DOMAIN frames : frames[i].pc = "html_wait"}
    ELSE {0}
Outcomes(body) ==
    IF Dangling /\ ContentHandlerState(body, m_askedToStop) = StateFinished
    THEN PathOutcomes ELSE {"own"}
ContentReadySignal(e, head, style, body, target, outcome) ==
    /\ ~crashed
    /\ UNCHANGED rewriteVars
    /\ e \in contentRequests
    /\ target \in Targets
    /\ outcome \in Outcomes(body)
    /\ contentRequests' = contentRequests \ {e}
    /\ IF connections = << >>
       THEN UNCHANGED << connections, frames, written, lastHandler, crashed >>
       ELSE LET reg == Head(connections)
                st == ContentHandlerState(body, m_askedToStop)
                owners == {i \in DOMAIN frames :
                              frames[i].id = reg /\ frames[i].pc = "html_wait"}
                topHtml == InPc("html_wait")
                abort == owners = {} /\ st = StateFinished /\ outcome = "abort"
                hit == IF owners # {} THEN owners
                       ELSE IF abort THEN {}
                       ELSE {target} \ {0}
                file == IF owners # {} THEN reg ELSE PathRead(reg, outcome)
                ran(i) == IF i = Len(frames)
                          THEN [frames[i] EXCEPT !.runs = @ + 1] ELSE frames[i]
            IN  /\ connections' = << >>
                /\ crashed' = abort
                /\ frames' = [i \in DOMAIN frames |->
                                IF i \in hit THEN [ran(i) EXCEPT !.state = st]
                                ELSE ran(i)]
                /\ written' = IF st = StateFinished /\ ~abort
                              THEN written \cup {file} ELSE written
                /\ lastHandler' = [reg |-> reg,
                                   during |-> IF topHtml THEN Top.id ELSE 0,
                                   head |-> IF body = "" THEN head ELSE "",
                                   style |-> IF body = "" THEN style ELSE "",
                                   body |-> body,
                                   wrote |-> st = StateFinished /\ ~abort]
    /\ UNCHANGED << exporterVars, loadSignals, workSignals, nextExport,
                    prepares, result, lastExit, fired, failSignalled, clearVars >>

\* A failure signal of the renderer that sets the Failed flag.
RendererFailed ==
    /\ ~crashed
    /\ UNCHANGED << rewriteVars, crashed >>
    /\ m_viewer # 0
    /\ m_webViewStates' = BitOr(m_webViewStates, Failed)
    /\ failSignalled' = TRUE
    /\ UNCHANGED << m_askedToStop, m_exportOngoing, m_viewer, m_htmlTemplate,
                    m_exportHtmlTemplate, frames, rendererVars, written,
                    nextExport, prepares, result, lastExit, fired, lastHandler,
                    clearVars >>

----------------------------------------------------------------------------
Next ==
    \/ Clear
    \/ \E addOutlinePanel \in BOOLEAN : Prepare(addOutlinePanel)
    \/ Stop
    \/ \E fmt \in Formats : DoExport(fmt)
    \/ PollReadiness
    \/ PollSettle
    \/ PollHtml
    \/ \E e \in loadSignals, ok \in BOOLEAN : LoadFinishedSignal(e, ok)
    \/ \E e \in workSignals : WorkFinishedSignal(e)
    \/ \E e \in contentRequests, head \in Fragments, style \in Fragments,
          body \in Fragments :
            \E target \in Targets, outcome \in Outcomes(body) :
                ContentReadySignal(e, head, style, body, target, outcome)

Spec == Init /\ [][Next]_vars

\* The same program with a renderer that can also signal failure.
NextFail == Next \/ RendererFailed

SpecFail == Init /\ [][NextFail]_vars

(***************************************************************************)
(* Text rewriting: writeHtmlFile and the three scanning loops.             *)
(*                                                                         *)
(* A text is a sequence of tokens; a token stands for the run of           *)
(* characters it spells.  The two patterns are matched as QRegExp matches  *)
(* them: the leftmost start at or after the cursor, greedy groups.         *)
(***************************************************************************)
MaxSegs == 2                \* segments an input text is made of

Q == "\""
IMG == "<img "
SRC == "src=\""
GT == ">"

Min(S) == CHOOSE x \in S : \A y \in S : x <= y
Max(S) == CHOOSE x \in S : \A y \in S : x >= y

\* QString::mid(from): a negative `from` gives the whole string
Mid(s, from) == SubSeq(s, IF from < 0 THEN 1 ELSE from + 1, Len(s))
Left(s, n) == SubSeq(s, 1, n)

\* QString::replace(idx, len, by), idx counted from 0
Replace(s, idx, len, by) == Left(s, idx) \o by \o Mid(s, idx + len)

Contains(s, sub) ==
    \E i \in 1..(Len(s) - Len(sub) + 1) : SubSeq(s, i, i + Len(sub) - 1) = sub

\* QString::lastIndexOf(ch, from): the search starts at `from`, a negative
\* `from` counts from the end; -1 when there is none
lastIndexOf(s, ch, from) ==
    LET start == IF from < 0 THEN from + Len(s) ELSE from
        hits == {i \in 0..(Len(s) - 1) : i <= start /\ s[i + 1] = ch}
    IN  IF hits = {} THEN 0 - 1 ELSE Max(hits)

\* \b before "url": the character before it is not a word character
EndsInWordChar(tok) == tok \in {"x", "p", "DATA", "url"}

NoMatch == [idx |-> 0 - 1, len |-> 0, cap1 |-> << >>, cap2 |-> << >>, cap3 |-> << >>]

\* [^"\)]+ stops at the first quote or closing parenthesis
StyleClassEnd(h, i) ==
    LET ends == {j \in (i + 4)..Len(h) : h[j] \in {Q, ")"}}
    IN  IF ends = {} THEN 0 ELSE Min(ends)

\* \burl\("((file|qrc):[^"\)]+)"\);  starting at the i-th token
StyleMatchAt(h, i) ==
    /\ i + 7 <= Len(h)
    /\ h[i] = "url"
    /\ i = 1 \/ ~EndsInWordChar(h[i - 1])
    /\ h[i + 1] = "("
    /\ h[i + 2] = Q
    /\ h[i + 3] \in {"file:", "qrc:"}
    /\ LET q == StyleClassEnd(h, i)
       IN  /\ q > i + 4
           /\ q + 2 <= Len(h)
           /\ h[q] = Q
           /\ h[q + 1] = ")"
           /\ h[q + 2] = ";"

StyleMatch(h, i) ==
    LET q == StyleClassEnd(h, i)
    IN  [idx |-> i - 1, len |-> q + 3 - i, cap1 |-> SubSeq(h, i + 3, q - 1),
         cap2 |-> << >>, cap3 |-> << >>]

\* src="([^"]+)"([^>]*)> with src=" as the k-th token: the index of the
\* closing ">", 0 when the rest of the pattern does not match
ImgTail(h, k) ==
    LET qs == {j \in (k + 1)..Len(h) : h[j] = Q}
    IN  IF qs = {} \/ Min(qs) = k + 1 THEN 0
        ELSE LET gs == {j \in (Min(qs) + 1)..Len(h) : h[j] = GT}
             IN  IF gs = {} THEN 0 ELSE Min(gs)

\* positions of src=" that the pattern can use for a tag opened at i
ImgSrcs(h, i) ==
    {k \in (i + 1)..Len(h) :
        /\ h[k] = SRC
        /\ \A j \in (i + 1)..(k - 1) : h[j] # GT
        /\ ImgTail(h, k) # 0}

\* the first group is greedy: the last usable src=" is the one taken
ImgSrc(h, i) == Max(ImgSrcs(h, i))

\* c_imgRegExp: <img ([^>]*)src="([^"]+)"([^>]*)>  starting at the i-th token
ImgMatchAt(h, i) == h[i] = IMG /\ ImgSrcs(h, i) # {}

ImgMatch(h, i) ==
    LET k == ImgSrc(h, i)
        q == Min({j \in (k + 1)..Len(h) : h[j] = Q})
        g == ImgTail(h, k)
    IN  [idx |-> i - 1, len |-> g + 1 - i, cap1 |-> SubSeq(h, i + 1, k - 1),
         cap2 |-> SubSeq(h, k + 1, q - 1), cap3 |-> SubSeq(h, q + 1, g - 1)]

\* QString::indexOf(reg, pos) with the captures of the match it found
indexOf(fn, h, pos) ==
    LET starts == {i \in (pos + 1)..Len(h) :
                      IF fn = "style" THEN StyleMatchAt(h, i) ELSE ImgMatchAt(h, i)}
    IN  IF starts = {} THEN NoMatch
        ELSE IF fn = "style" THEN StyleMatch(h, Min(starts))
        ELSE ImgMatch(h, Min(starts))

\* the suffix of the copied file's path from its second-to-last '/'
getResourceRelativePath(p_file) ==
    LET idx == lastIndexOf(p_file, "/", 0 - 1)
        idx2 == lastIndexOf(p_file, "/", idx - 1)
    IN  << "." >> \o Mid(p_file, idx2)

\* what WebUtils::toDataUri and WebUtils::copyResource can return; the empty
\* text is their failure
DataUri == << "DATA" >>
SubPath == << "/", "out_files", "/", "sub", "/", "x.png" >>
FlatPath == << "/", "out_files", "/", "x.png" >>
Results(fn) == IF fn = "fix" THEN {<< >>, SubPath, FlatPath} ELSE {<< >>, DataUri}

\* the text that replaces a match
NewUrl(fn, m, res) ==
    IF fn = "style" THEN << "url", "(", "'" >> \o res \o << "'", ")", ";" >>
    ELSE IF fn = "embed"
         THEN << IMG >> \o m.cap1 \o << "src='" >> \o res \o << "'" >> \o m.cap3 \o << GT >>
    ELSE << IMG >> \o m.cap1 \o << SRC >> \o getResourceRelativePath(res)
                  \o << Q >> \o m.cap3 \o << GT >>

\* the cursor after a skipped match and after a replaced one
SkipTo_Stay(m) == m.idx
SkipTo(m) == m.idx + m.len
AfterReplace(m, newUrl) == m.idx + Len(newUrl)

\* one iteration of a scanning loop on text h with the cursor at pos, `res`
\* being what the conversion returns if this iteration calls it
ScanStep(fn, h, pos, res) ==
    LET m == indexOf(fn, h, pos)
    IN  IF m.idx = 0 - 1
        THEN [html |-> h, pos |-> pos, hit |-> FALSE, asked |-> FALSE, altered |-> FALSE]
        ELSE IF fn # "style" /\ m.cap2 = << >>
        THEN [html |-> h, pos |-> SkipTo(m), hit |-> TRUE, asked |-> FALSE, altered |-> FALSE]
        ELSE IF res = << >>
        THEN [html |-> h, pos |-> SkipTo(m), hit |-> TRUE, asked |-> TRUE, altered |-> FALSE]
        ELSE LET newUrl == NewUrl(fn, m, res)
             IN  [html |-> Replace(h, m.idx, m.len, newUrl),
                  pos |-> AfterReplace(m, newUrl),
                  hit |-> TRUE, asked |-> TRUE, altered |-> TRUE]

\* a whole loop, every conversion in it returning `res`
RECURSIVE Rewrite(_, _, _, _)
Rewrite(fn, h, pos, res) ==
    IF pos >= Len(h) THEN h
    ELSE LET st == ScanStep(fn, h, pos, res)
         IN  IF ~st.hit THEN h ELSE Rewrite(fn, st.html, st.pos, res)

embedStyleResources(p_html, res) == Rewrite("style", p_html, 0, res)
embedBodyResources(baseEmpty, p_html, res) ==
    IF baseEmpty THEN p_html ELSE Rewrite("embed", p_html, 0, res)
fixBodyResources(baseEmpty, p_html, res) ==
    IF baseEmpty THEN p_html ELSE Rewrite("fix", p_html, 0, res)

\* Input texts.  A segment is an img tag given by its parts, or plain text
\* (kept in `pre`).
Text(toks) == [img |-> FALSE, pre |-> toks, src |-> << >>, post |-> << >>]
Alt == << "alt=", Q, "t", Q, " " >>
Width == << " ", "w=1" >>
DataSrc == << " ", "data-", SRC, "d", Q >>
UrlFile == << "url", "(", Q, "file:", "p", Q, ")" >>
UrlQrc == << "url", "(", Q, "qrc:", "p", Q, ")" >>
UrlHttp == << "url", "(", Q, "http:", "p", Q, ")" >>

StyleSegs ==
    {Text(t) : t \in {UrlFile \o << ";" >>, UrlFile, UrlQrc \o << ";" >>,
                      UrlHttp \o << ";" >>, << "x" >>, << " " >>}}
BodySegs ==
    {[img |-> TRUE, pre |-> a, src |-> << "img/x.png" >>, post |-> b] :
        a \in {<< >>, Alt}, b \in {<< >>, Width, DataSrc}}
    \cup {Text(<< "x" >>)}

Render(seg) ==
    IF seg.img THEN << IMG >> \o seg.pre \o << SRC >> \o seg.src \o << Q >>
                    \o seg.post \o << GT >>
    ELSE seg.pre

RECURSIVE Flatten(_)
Flatten(segs) ==
    IF segs = << >> THEN << >> ELSE Render(Head(segs)) \o Flatten(Tail(segs))

SeqsUpTo(S, n) == UNION {[1..k -> S] : k \in 0..n}
Inputs(fn) == SeqsUpTo(IF fn = "style" THEN StyleSegs ELSE BodySegs, MaxSegs)
Scans == {"style", "embed", "fix"}

\* the rewriting layer runs one call at a time, to completion
Idle == scan.fn = "none" /\ ~page.called

\* a call of one of the three functions, up to the first test of its loop
ScanBegin(fn, segs, baseEmpty) ==
    /\ Idle
    /\ scan' = [fn |-> fn, tags |-> segs, html |-> Flatten(segs), pos |-> 0,
                altered |-> FALSE,
                done |-> (fn # "style" /\ baseEmpty) \/ Flatten(segs) = << >>,
                base |-> fn = "style" \/ ~baseEmpty, got |-> {}, iters |-> 0]
    /\ UNCHANGED << exportVars, page >>

\* one iteration of the running loop and the loop test that follows it
ScanIterate(res) ==
    /\ scan.fn # "none"
    /\ ~scan.done
    /\ LET st == ScanStep(scan.fn, scan.html, scan.pos, res)
       IN  scan' = [scan EXCEPT !.html = st.html,
                                !.pos = st.pos,
                                !.altered = scan.altered \/ st.altered,
                                !.done = ~st.hit \/ st.pos >= Len(st.html),
                                !.got = IF st.asked THEN scan.got \cup {res}
                                        ELSE scan.got,
                                !.iters = scan.iters + 1]
    /\ UNCHANGED << exportVars, page >>

\* The export template with its four placeholders, and HtmlTemplateHelper's
\* fill functions: each puts a text in the placeholder it is named after.
Unfilled == << "placeholder" >>
ExportTemplate == [title |-> Unfilled, style |-> Unfilled, head |-> Unfilled,
                   body |-> Unfilled]
fillTitle(t, text) == [t EXCEPT !.title = text]
fillStyleContent(t, text) == [t EXCEPT !.style = text]
fillHeadContent(t, text) == [t EXCEPT !.head = text]
fillBodyContent(t, text) == [t EXCEPT !.body = text]

\* whether writeHtmlFile puts the style content in the template
FillsStyle_NonEmpty(p_styleContent, p_embedStyles) == p_styleContent # << >>
FillsStyle(p_styleContent, p_embedStyles) ==
    p_styleContent # << >> /\ p_embedStyles

WriteStyles == {<< >>} \cup {Render(s) : s \in StyleSegs}
WriteBodies == {<< >>} \cup {Render(s) : s \in BodySegs}
Folders == {"absent", "empty", "files"}

\* writeHtmlFile(file "out.html", ...): dataRes and copyRes are what
\* toDataUri and copyResource return during the call, folder is the state
\* of the resource folder "out_files" before it
WriteHtmlFile(p_headContent, p_styleContent, p_bodyContent, p_embedStyles, p_completePage, p_embedImages, baseEmpty, dataRes, copyRes, folder) ==
    LET title == << "out", " - ", "c_appName" >>
        t1 == fillTitle(ExportTemplate, title)
        t2 == IF FillsStyle(p_styleContent, p_embedStyles)
              THEN fillStyleContent(t1, embedStyleResources(p_styleContent, dataRes))
              ELSE t1
        t3 == IF p_headContent # << >> THEN fillHeadContent(t2, p_headContent)
              ELSE t2
        bodyContent == IF ~p_completePage THEN p_bodyContent
                       ELSE IF p_embedImages
                       THEN embedBodyResources(baseEmpty, p_bodyContent, dataRes)
                       ELSE fixBodyResources(baseEmpty, p_bodyContent, copyRes)
        copied == p_completePage /\ ~p_embedImages /\ bodyContent # p_bodyContent
    IN  /\ Idle
        /\ page' = [called |-> TRUE, head |-> p_headContent,
                    style |-> p_styleContent, body |-> p_bodyContent,
                    embedStyles |-> p_embedStyles,
                    completePage |-> p_completePage,
                    embedImages |-> p_embedImages,
                    dataRes |-> dataRes,
                    out |-> fillBodyContent(t3, bodyContent),
                    folder |-> IF copied \/ folder = "files" THEN "files"
                               ELSE "absent",
                    ret |-> TRUE]
        /\ UNCHANGED << exportVars, scan >>

\* the followed call returns: its loop has ended, or the file is written
RewriteReturn ==
    /\ (scan.fn # "none" /\ scan.done) \/ page.called
    /\ scan' = NoScan
    /\ page' = NoPage
    /\ UNCHANGED exportVars

NextRewrite ==
    \/ /\ Idle
       /\ \E fn \in Scans : \E segs \in Inputs(fn) : \E baseEmpty \in BOOLEAN :
            ScanBegin(fn, segs, baseEmpty)
    \/ \E res \in Results(scan.fn) : ScanIterate(res)
    \/ /\ Idle
       /\ \E head \in {<< >>, << "h" >>} : \E style \in WriteStyles :
          \E body \in WriteBodies : \E es, cp, ei, be \in BOOLEAN :
          \E dataRes \in Results("embed") : \E copyRes \in Results("fix") :
          \E folder \in Folders :
            WriteHtmlFile(head, style, body, es, cp, ei, be, dataRes, copyRes, folder)
    \/ RewriteReturn

\* The rewriting layer on its own: any call, any text, any conversion outcome.
SpecRewrite == Init /\ [][NextRewrite]_vars

----------------------------------------------------------------------------
\* Properties.

Handled(seq, kind) == \E i \in DOMAIN seq : seq[i] = kind
BothFired == Handled(fired, "load") /\ Handled(fired, "work")

\* C1: while a doExport is in progress and no failure flag is set,
\* isWebViewReady() is true exactly when both the load-finished and the
\* work-finished handler have run since the render state was reset, in
\* whichever order they ran.
C1_ReadyIffBothFired ==
    (frames # << >> /\ ~isWebViewFailed(m_webViewStates))
        => (isWebViewReady(m_webViewStates) <=> BothFired)

\* An earlier export has returned from doExportHtml, and the export now in
\* progress is ready with work-finished handled first.
C1_Witness ==
    /\ lastExit.path = "html"
    /\ frames # << >>
    /\ fired = << "work", "load" >>
    /\ isWebViewReady(m_webViewStates)

LeavesWait ==
    \/ Len(frames') < Len(frames)
    \/ Len(frames') = Len(frames) /\ frames'[Len(frames')].pc # "wait"

\* C2: when a stop() called while doExport is inside the sleepWait of its
\* readiness loop is in force at the next poll (doExport cleared the flag on
\* entry; clear() and a later doExport entry cancel the request), that poll
\* returns false from doExport, and doExportHtml is not entered: no handler
\* is connected and no saveContent is requested, whatever completion signals
\* arrived meanwhile.
C2_StopEndsReadinessWait ==
    [][(InPc("wait") /\ m_askedToStop /\ LeavesWait)
        => /\ frames' = Pop
           /\ lastExit'.id = Top.id /\ lastExit'.path = "stop" /\ ~lastExit'.ret
           /\ result'[Top.id] = "false"
           /\ connections' = connections
           /\ contentRequests' = contentRequests
           /\ written' = written]_vars

\* doExport returned false through the stop check although both completion
\* signals had arrived before that poll.
C2_Witness ==
    /\ frames = << >>
    /\ lastExit.path = "stop"
    /\ lastExit.ready
    /\ result[lastExit.id] = "false"
    /\ lastExit.id \notin written

\* C3: the output file of an export whose doExport returned false has not
\* been written by writeHtmlFile, during the call or after it.
C3_NoWriteWhenFalse ==
    \A e \in Exports : result[e] = "false" => e \notin written

\* C4: during one doExport call the body of the content-ready handler runs at
\* most once.
C4_HandlerOncePerExport ==
    \A i \in DOMAIN frames : frames[i].runs <= 1

\* C5: once a failure signal has set the Failed flag, isWebViewReady() is
\* false for as long as the render state is not reset by the next export,
\* whichever completion flags are set before or after.
C5_FailedNeverReady ==
    failSignalled => ~isWebViewReady(m_webViewStates)

\* During an export, Failed is set together with both completion flags.
C5_Witness ==
    /\ frames # << >>
    /\ failSignalled
    /\ HasFlag(m_webViewStates, LoadFinished)
    /\ HasFlag(m_webViewStates, WorkFinished)
    /\ HasFlag(m_webViewStates, Failed)

\* C6: a doExport whose load the renderer reported as failed while it was in
\* its readiness wait goes no further than that wait: it neither settles nor
\* enters doExportHtml.
C6_ErrorAbortsExport ==
    \A i \in DOMAIN frames : frames[i].err => frames[i].pc = "wait"

\* C7: every step in which a doExport returns, on whichever path, leaves the
\* export-ongoing flag false, and the flag is false whenever no doExport is
\* in progress.
C7_OngoingClearedOnReturn ==
    /\ [](frames = << >> => ~m_exportOngoing)
    /\ [][Len(frames') < Len(frames) => ~m_exportOngoing']_vars

\* doExport has returned false from doExportHtml, whose loop stop() broke
\* before any handler ran.
C7_Witness ==
    /\ frames = << >>
    /\ lastExit.path = "html"
    /\ ~lastExit.ret
    /\ lastHandler = NoHandler
    /\ ~m_exportOngoing

\* C8: in every reachable state at most one activation of doExport is in
\* progress.
C8_SingleActivation ==
    Len(frames) <= 1

\* The guard itself is as stated: no doExport starts while the
\* export-ongoing flag is set.
NoEntryWhileOngoing ==
    [][nextExport' # nextExport => ~m_exportOngoing]_vars

\* Two activations of doExport are inside sleepWait, one nested in the
\* other (needs a second prepare()).
NestedActivations ==
    /\ Len(frames) = 2
    /\ frames[1].pc # "crashed" /\ frames[2].pc # "crashed"
    /\ ~crashed

\* C9: after two or more clear() calls in a row the exporter's fields equal
\* the fields after the first of them: no renderer, both templates empty,
\* stop flag false, ongoing flag false.
C9_ClearIdempotent ==
    clearRun = 2 =>
        /\ Exporter = clearSnap
        /\ m_viewer = 0
        /\ m_htmlTemplate = "" /\ m_exportHtmlTemplate = ""
        /\ ~m_askedToStop
        /\ ~m_exportOngoing

\* clear() was called twice in a row on an exporter that had been prepared
\* and had run an export that was stopped.
C9_Witness ==
    /\ clearRun = 2
    /\ prepares > 0
    /\ lastExit.path = "stop"

\* a step in which the body of a connected content-ready handler runs
HandlerRuns == connections # << >> /\ connections' = << >> /\ m_viewer' # 0

\* C10: a content-ready handler delivered an empty body fragment does not
\* call writeHtmlFile and sets Failed as the state of its doExportHtml,
\* whatever the head and style fragments; and a doExportHtml that ends its
\* wait with the state Failed makes doExport return false.
C10_EmptyBodyFails ==
    /\ [][(HandlerRuns /\ lastHandler'.body = "")
            => /\ written' = written
               /\ ~lastHandler'.wrote
               /\ \A i \in DOMAIN frames :
                    \/ frames[i].id = Head(connections) /\ frames[i].pc = "html_wait"
                    \/ frames'[i].state # frames[i].state
                    => frames'[i].state = StateFailed]_vars
    /\ [][(InPc("html_wait") /\ Top.state = StateFailed /\ Len(frames') < Len(frames))
            => result'[Top.id] = "false"]_vars

\* doExportHtml returned false after its own handler was delivered an empty
\* body with non-empty head and style.
C10_Witness ==
    /\ lastHandler.reg # 0
    /\ lastHandler.reg = lastHandler.during
    /\ lastHandler.body = "" /\ lastHandler.head # "" /\ lastHandler.style # ""
    /\ ~m_askedToStop
    /\ lastExit.id = lastHandler.during
    /\ lastExit.path = "html"
    /\ result[lastHandler.during] = "false"

\* C11: doExport leaves its readiness wait only when a stop() request is in
\* force, the renderer failed or the renderer is ready: with none of these it
\* stays in the wait however often it polls; and with a stop() request in
\* force the step that leaves the wait returns false.
C11_NoImplicitTimeout ==
    [][(InPc("wait") /\ LeavesWait)
        => /\ \/ m_askedToStop
              \/ isWebViewFailed(m_webViewStates)
              \/ isWebViewReady(m_webViewStates)
           /\ m_askedToStop => (frames' = Pop /\ result'[Top.id] = "false")]_vars

\* A doExport for which no completion signal was ever handled has returned
\* false through the stop check.
C11_Witness ==
    /\ frames = << >>
    /\ lastExit.path = "stop"
    /\ fired = << >>
    /\ result[lastExit.id] = "false"

Templates == << m_htmlTemplate, m_exportHtmlTemplate >>

\* what the steps of doExport and of its handlers change in the activations
Progress == [i \in DOMAIN frames |-> << frames[i].id, frames[i].pc, frames[i].state >>]

\* C15: there is no renderer before the first prepare() and after a clear();
\* only prepare() creates it and only clear() destroys it; the templates
\* change only in those two calls; and no step of a doExport (its entry, a
\* poll, its handler, its return) changes the renderer or a template.
C15_RendererLifetime ==
    /\ []((prepares = 0 \/ clearRun >= 1) => m_viewer = 0)
    /\ [][/\ (m_viewer' # m_viewer \/ Templates' # Templates)
                => \/ prepares' = prepares + 1 /\ m_viewer = 0 /\ m_viewer' # 0
                   \/ clearRun = 0 /\ clearRun' = 1 /\ m_viewer' = 0
          /\ (Progress' # Progress \/ written' # written)
                => (m_viewer' = m_viewer /\ Templates' = Templates)]_vars

\* Two exports have run to their return on the renderer of one prepare().
C15_Witness ==
    /\ frames = << >>
    /\ lastExit.id = 2
    /\ result[1] # "none"
    /\ m_viewer = 1
    /\ m_htmlTemplate = "viewer"

\* C17: when no doExport is in progress no content-ready handler is
\* connected.
C17_NoHandlerLeftConnected ==
    frames = << >> => connections = << >>

\* C18: a doExport that has left its readiness wait as ready has had both
\* signals of its own load handled.
C18_OwnSignalsMakeReady ==
    \A i \in DOMAIN frames :
        frames[i].pc \in {"settle", "html_wait"}
            => (frames[i].id \notin loadSignals /\ frames[i].id \notin workSignals)

\* C19: once the renderer has answered the saveContent() of a doExport that
\* waits in doExportHtml, with no stop() requested, the state of that
\* doExportHtml is no longer Busy, so that its next poll returns.
C19_HtmlWaitCanEnd ==
    (/\ InPc("html_wait")
     /\ ~crashed
     /\ ~m_askedToStop
     /\ Top.id \notin contentRequests
     /\ lastHandler.during = Top.id)
        => Top.state # StateBusy

\* C20: while a doExport is in progress the cancellation flag is set exactly
\* when stop() was called after that doExport started (and no clear() or
\* later doExport has reset the flag since): a stop() from before the entry
\* is not seen by the call.
C20_StaleStopIgnored ==
    frames # << >> => (m_askedToStop <=> Top.stopped)

\* A doExport entered with the flag still set by an earlier stop() is in its
\* readiness wait with the flag clear and both completion signals handled:
\* its next poll goes on to the export.
C20_Witness ==
    /\ InPc("wait")
    /\ Top.pre
    /\ ~Top.stopped
    /\ ~m_askedToStop
    /\ BothFired
    /\ isWebViewReady(m_webViewStates)

----------------------------------------------------------------------------
\* Properties of the rewriting layer.

Input == Flatten(scan.tags)
Remaining == Len(scan.html) - scan.pos
ScanIterates == scan.fn # "none" /\ scan'.fn = scan.fn /\ scan'.iters = scan.iters + 1

\* C16: each of the three scanning loops terminates on every input and every
\* outcome of the conversion: the number of iterations is bounded by the
\* length of the input; an iteration that finds no match ends the loop; any
\* other iteration, skip or replacement, moves the cursor strictly forward
\* to the end of the segment it examined, shrinks the text left to scan,
\* and leaves the text before and after the segment as it was.
C16_ScanTerminates ==
    /\ [](scan.fn # "none" => Remaining + scan.iters <= Len(Input) + 1)
    /\ [][ScanIterates =>
            LET m == indexOf(scan.fn, scan.html, scan.pos)
                grown == Len(scan'.html) - Len(scan.html)
            IN  IF m.idx = 0 - 1
                THEN scan'.done /\ scan'.html = scan.html /\ scan'.pos = scan.pos
                ELSE /\ scan'.pos > scan.pos
                     /\ Len(scan'.html) - scan'.pos < Remaining
                     /\ scan'.pos = m.idx + m.len + grown
                     /\ Left(scan'.html, m.idx) = Left(scan.html, m.idx)
                     /\ Mid(scan'.html, scan'.pos) = Mid(scan.html, m.idx + m.len)]_vars

\* fixBodyResources has ended at the end of a text in which it skipped one
\* tag and replaced another.
C16_Witness ==
    /\ scan.fn = "fix"
    /\ scan.done
    /\ scan.iters = 2
    /\ scan.got = {<< >>, SubPath}
    /\ scan.pos = Len(scan.html)
    /\ scan.html # Input

\* C13: embedStyleResources, given style content that contains
\* url("file:...") and a converter that returns DATA for every URL, ends
\* with a text that contains url('DATA') and no url("file:...") any more,
\* whatever follows the closing parenthesis.
C13_StyleRoundTrip ==
    (/\ scan.fn = "style"
     /\ scan.done
     /\ scan.got \subseteq {DataUri}
     /\ Contains(Input, UrlFile))
        => /\ Contains(scan.html, << "url", "(", "'" >> \o DataUri \o << "'", ")" >>)
           /\ ~Contains(scan.html, << "url", "(", Q, "file:" >>)

\* the tag a folder-mode rewrite is expected to make of an img tag
Copied(seg, path) == [seg EXCEPT !.src = path]
Expected(segs, path) ==
    [i \in DOMAIN segs |-> IF segs[i].img THEN Copied(segs[i], path) ELSE segs[i]]
RelSub == << ".", "/", "sub", "/", "x.png" >>
FixedWithSub ==
    /\ scan.fn = "fix"
    /\ scan.base
    /\ scan.done
    /\ scan.got \subseteq {SubPath}
SrcOnlyOnce(seg) == ~Contains(seg.pre, << SRC >>) /\ ~Contains(seg.post, << SRC >>)

\* C14 as stated: fixBodyResources, every copy succeeding with the path
\* <folder>/sub/x.png, makes of every img tag the same tag with
\* src="./sub/x.png" and leaves everything else in the text unchanged.
C14_FolderModeRewrite ==
    FixedWithSub => scan.html = Flatten(Expected(scan.tags, RelSub))

\* The rewrite is the expected one on every text whose img tags contain
\* src=" only once, as their src attribute.
FolderModeRewrite_SingleSrc ==
    (FixedWithSub /\ \A i \in DOMAIN scan.tags : SrcOnlyOnce(scan.tags[i]))
        => scan.html = Flatten(Expected(scan.tags, RelSub))

\* <img alt="t" src="img/x.png" w=1> has become
\* <img alt="t" src="./sub/x.png" w=1>.
FolderModeRewrite_Reached ==
    /\ FixedWithSub
    /\ scan.got = {SubPath}
    /\ scan.tags = << [img |-> TRUE, pre |-> Alt, src |-> << "img/x.png" >>,
                       post |-> Width] >>
    /\ scan.html = << IMG >> \o Alt \o << SRC >> \o RelSub \o << Q >>
                    \o Width \o << GT >>

WroteStyle == page.called /\ page.style # << >>

\* C12 as stated: writeHtmlFile, given non-empty style content and
\* embedStyles false, puts the style content as it is in the style
\* placeholder of the template it writes.
C12_StyleInsertedUnrewritten ==
    (WroteStyle /\ ~page.embedStyles) => page.out.style = page.style

\* C12 amended: writeHtmlFile, given non-empty style content, fills the style
\* placeholder only when embedStyles is true (with the rewritten content,
\* which is the content itself when no resource converts); when embedStyles
\* is false the placeholder of the written template is left unfilled.
C12_StyleOnlyWhenEmbedded ==
    WroteStyle =>
        IF page.embedStyles
        THEN /\ page.out.style # Unfilled
             /\ page.dataRes = << >> => page.out.style = page.style
        ELSE page.out.style = Unfilled

\* A page was written from style content url("file:p"); with embedStyles
\* false: title, head and body are filled, the style placeholder is not.
C12_Witness ==
    /\ WroteStyle
    /\ ~page.embedStyles
    /\ page.style = UrlFile \o << ";" >>
    /\ page.out.style = Unfilled
    /\ page.out.title # Unfilled
    /\ page.out.head = << "h" >>
    /\ page.body # << >>
    /\ page.out.body = page.body
    /\ page.ret

====
